---- MODULE Spec2Model ----
(***************************************************************************)
(* Load profile application (catalogue method): the validator, the energy  *)
(* calculator and the calculation part of LoadProfileApp.run.              *)
(*                                                                         *)
(* A DataFrame is a sequence of rows; a row is a record with one field per *)
(* column.  Real-valued columns are kept as exact integers in fixed units: *)
(*   Power, ApparentPower      hundredths of a watt / volt-ampere          *)
(*   PowerFactor               hundredths (0.01 is 1, 1.0 is 100)          *)
(*   DutyCycle, UseTime        per cent                                    *)
(*   an energy value           Wh * 100 * PctDen * PctDen                  *)
(*   a tier peak               (W or VA) * 100 * PctDen                    *)
(* so that x / 100 in the code is a division by PctDen carried in the unit *)
(* and every product is exact.  A schedule cell is the INTEGER that the     *)
(* appliances table stores for a check box: 0 or 1, or another integer in  *)
(* the table whose cells were not written through the check boxes.         *)
(***************************************************************************)
EXTENDS Integers, Sequences, FiniteSets, TLC

VARIABLES
    dataset,          \* which appliances table the session works on
    appliances,       \* the rows of the appliances table in the database
    session_state,    \* st.session_state: its keys and original_df
    pc,               \* position in LoadProfileApp.run / in the validator harness
    editor_df,        \* the frame returned by the data editor (the caller's batch)
    edited_df,        \* run's local edited_df from the validation on
    energy_df,        \* per row: Appliance and the per-interval energy
    average_power_df, \* per row: Appliance and the per-interval average power
    total_energy,     \* run's total_energy
    save_result,      \* the "Save Changes" button of this pass and what save_data returned
    change_log,       \* the change_log entries save_data wrote in this pass
    total_load,       \* plot_df["Total Load (W)"] of _display_charts
    filtered_view,    \* filtered_power_df of _display_time_series_charts
    peak_loads,       \* what calculate_peak_loads returned in _display_summaries
    metrics,          \* the summaries displayed: tier name -> its metrics
    comparison        \* the three profiles of _display_comparison_charts

vars == <<dataset, appliances, session_state, pc, editor_df, edited_df, energy_df,
          average_power_df, total_energy, save_result, change_log, total_load,
          filtered_view, peak_loads, metrics, comparison>>

----------------------------------------------------------------------------
(* Bounds of the model *)

MaxRecords == 2
MaxBatch == 1

(* Program constants *)

PctDen == 100
IntervalHours == 2
UseTimeMin == 0
UseTimeMax == 100
PowerMin == 0
DutyCycleMin == 0
DutyCycleMax == 100
PowerFactorMin == 1
PowerFactorMax == 100
QuantityMin == 0
ApparentDecimals == 1
NumIntervals == 12

\* (the twelve intervals and a thirteenth, the legacy "22:00-24:00" column)
time_periods_with_legacy == 1..(NumIntervals + 1)

\* DatabaseManager._make_time_periods: the twelve 2-hour intervals, by position
time_periods == 1..NumIntervals


----------------------------------------------------------------------------
(* Arithmetic helpers: numpy's sum, max and round on exact values *)

RECURSIVE SeqSum(_)
SeqSum(s) ==
    IF s = <<>> THEN 0 ELSE Head(s) + SeqSum(Tail(s))

SetMax(S) ==
    CHOOSE m \in S : \A x \in S : x <= m

\* n / d rounded to the nearest integer, ties to the even one (numpy's rint)
RoundHalfEven(n, d) ==
    LET q == n \div d
        r == n % d
    IN  IF 2 * r < d THEN q
        ELSE IF 2 * r > d THEN q + 1
        ELSE IF q % 2 = 0 THEN q ELSE q + 1

RECURSIVE GCD(_, _)
GCD(a, b) ==
    IF b = 0 THEN a ELSE GCD(b, a % b)

\* the real number n / d, in lowest terms
Fraction(n, d) ==
    LET g == GCD(n, d)
    IN  IF g = 0 THEN [num |-> n, den |-> d] ELSE [num |-> n \div g, den |-> d \div g]

\* 10 ^ k
RECURSIVE Pow10(_)
Pow10(k) ==
    IF k = 0 THEN 1 ELSE 10 * Pow10(k - 1)

----------------------------------------------------------------------------
(* Python conversions *)

\* int(is_on) and astype(int) of a schedule cell: a bool is the integer 0 or 1
\* and an integer converts to itself
int_cast(is_on) ==
    is_on

\* str.lower() on the priority spellings that occur
str_lower(s) ==
    CASE s = "Essential" -> "essential"
      [] s = "Medium" -> "medium"
      [] s = "Non-Essential" -> "non-essential"
      [] OTHER -> s

----------------------------------------------------------------------------
(* DataValidator *)

\* Series.clip(lower, upper)
\* (a clip that also rescales the per cent to a fraction, / 100)
clip_to_fraction(x, lower, upper) ==
    (IF x < lower THEN lower ELSE IF x > upper THEN upper ELSE x) \div PctDen

\* (a clip whose upper bound is left out)
clip_lower_only(x, lower, upper) ==
    IF x < lower THEN lower ELSE x

clip(x, lower, upper) ==
    IF x < lower THEN lower ELSE IF x > upper THEN upper ELSE x

\* (a lower clip that is left out)
clip_lower_missing(x, lower) ==
    x

\* Series.clip(lower)
clip_lower(x, lower) ==
    IF x < lower THEN lower ELSE x

\* the five column assignments of validate_df, applied to one row
clip_row(row) ==
    [row EXCEPT
        !.UseTime = clip(@, UseTimeMin, UseTimeMax),
        !.Power = clip_lower(@, PowerMin),
        !.DutyCycle = clip(@, DutyCycleMin, DutyCycleMax),
        !.PowerFactor = clip(@, PowerFactorMin, PowerFactorMax),
        !.Quantity = clip_lower(@, QuantityMin)]

clip_columns(df) ==
    [i \in DOMAIN df |-> clip_row(df[i])]

\* (validate_df without its df.copy(): the columns are assigned in the caller's frame)
validate_df_in_place(df) ==
    [caller |-> clip_columns(df), result |-> clip_columns(df)]

\* validate_df: what the call leaves in the caller's frame and what it returns
validate_df(df) ==
    [caller |-> df, result |-> clip_columns(df)]

----------------------------------------------------------------------------
(* LoadProfileApp.run: the derived apparent power *)

\* ((Power * Power Factor).round(1): the factor multiplied instead of divided)
apparent_power_va_product(row) ==
    LET scale == Pow10(ApparentDecimals)
    IN  (PctDen \div scale)
            * RoundHalfEven(row.Power * row.PowerFactor * scale, PctDen * PctDen)

\* (Power / Power Factor).round(1), in hundredths of a VA
apparent_power_va(row) ==
    LET scale == Pow10(ApparentDecimals)
    IN  (PctDen \div scale)
            * RoundHalfEven(row.Power * scale, row.PowerFactor)

\* (the stored "Apparent Power (VA)" column kept as loaded)
derive_apparent_stored(df) ==
    df

derive_apparent(df) ==
    [i \in DOMAIN df |-> [df[i] EXCEPT !.ApparentPower = apparent_power_va(df[i])]]

----------------------------------------------------------------------------
(* EnergyCalculator *)

\* (the interval energy without the use-time factor)
compute_energy_no_use_time(row) ==
    [t \in time_periods |->
        IntervalHours * row.Quantity * row.Power * row.DutyCycle
            * PctDen * int_cast(row.sched[t])]

compute_energy(row) ==
    [t \in time_periods |->
        IntervalHours * row.Quantity * row.Power * row.DutyCycle
            * row.UseTime * int_cast(row.sched[t])]

\* (the interval power scaled by the use time, as the energy is)
compute_average_power_use_time(row) ==
    [t \in time_periods |->
        (row.Quantity * row.Power * row.UseTime * int_cast(row.sched[t])) \div PctDen]

compute_average_power(row) ==
    [t \in time_periods |->
        row.Quantity * row.Power * int_cast(row.sched[t])]

\* (df[time_periods].astype(int).values * weights.reshape(-1, 1)).sum(axis=0)
column_sums(df, weights) ==
    [t \in time_periods |->
        SeqSum([i \in DOMAIN df |-> int_cast(df[i].sched[t]) * weights[i]])]

\* ndarray.max() of a per-interval array
array_max(a) ==
    SetMax({a[t] : t \in time_periods})

\* (df["Quantity"] * df["Power (W)"]).values
real_weights(df) ==
    [i \in DOMAIN df |-> df[i].Quantity * df[i].Power]

\* (df["Quantity"] * df["Apparent Power (VA)"]).values
apparent_weights(df) ==
    [i \in DOMAIN df |-> df[i].Quantity * df[i].ApparentPower]

\* (the peaks scaled by the use time, as the tier peaks are)
calculate_peak_loads_use_time(df) ==
    [real |-> array_max(column_sums(df,
                [i \in DOMAIN df |-> (real_weights(df)[i] * df[i].UseTime) \div PctDen])),
     apparent |-> array_max(column_sums(df,
                [i \in DOMAIN df |-> (apparent_weights(df)[i] * df[i].UseTime) \div PctDen]))]

calculate_peak_loads(df) ==
    [real |-> array_max(column_sums(df, real_weights(df))),
     apparent |-> array_max(column_sums(df, apparent_weights(df)))]

----------------------------------------------------------------------------
(* LoadProfileApp: energy tables, daily totals and the tier summaries *)

\* df.apply(compute_energy, axis=1) with the Appliance column added
energy_table(df) ==
    [i \in DOMAIN df |-> [Appliance |-> df[i].Appliance, e |-> compute_energy(df[i])]]

\* df.apply(compute_average_power, axis=1) with the Appliance column added
average_power_table(df) ==
    [i \in DOMAIN df |-> [Appliance |-> df[i].Appliance, e |-> compute_average_power(df[i])]]

\* table[time_periods].sum(axis=1)[i]
row_total(table, i) ==
    SeqSum([t \in time_periods |-> table[i].e[t]])

\* edited_df["Total Daily Energy (Wh)"] = energy_df[time_periods].sum(axis=1)
with_daily_totals(df, table) ==
    [i \in DOMAIN df |-> [df[i] EXCEPT !.TotalDailyEnergy = row_total(table, i)]]

\* edited_df["Total Daily Energy (Wh)"].sum()
daily_total_sum(df) ==
    SeqSum([i \in DOMAIN df |-> df[i].TotalDailyEnergy])

\* df[df["Priority"].str.lower().isin(priorities)]
priority_filter(df, priorities) ==
    SelectSeq(df, LAMBDA row : str_lower(row.Priority) \in priorities)

\* energy_df[energy_df["Appliance"].isin(tier_df["Appliance"])][time_periods].sum().sum()
tier_total_energy(table, tier_df) ==
    LET names == {tier_df[i].Appliance : i \in DOMAIN tier_df}
        rows == SelectSeq(table, LAMBDA row : row.Appliance \in names)
    IN  SeqSum([t \in time_periods |-> SeqSum([i \in DOMAIN rows |-> rows[i].e[t]])])

\* (the tier weights without the use-time factor)
tier_real_weights_no_use_time(tier_df) ==
    [i \in DOMAIN tier_df |-> tier_df[i].Quantity * tier_df[i].Power * PctDen]

\* (tier_df["Quantity"] * tier_df["Power (W)"] * tier_df["Use Time (%)"] / 100).values,
\* in units of 1 / PctDen
tier_real_weights(tier_df) ==
    [i \in DOMAIN tier_df |-> tier_df[i].Quantity * tier_df[i].Power * tier_df[i].UseTime]

\* the same with "Apparent Power (VA)"
tier_apparent_weights(tier_df) ==
    [i \in DOMAIN tier_df |->
        tier_df[i].Quantity * tier_df[i].ApparentPower * tier_df[i].UseTime]

\* (the allocation without its guard on the denominator)
load_allocation_unguarded(tier_peak_apparent, peak_load_apparent) ==
    Fraction(tier_peak_apparent * 100, peak_load_apparent * PctDen)

\* tier_peak_load_apparent / peak_load_apparent * 100 if peak_load_apparent > 0 else 0,
\* a per cent, with tier_peak_apparent in units of 1 / PctDen
load_allocation(tier_peak_apparent, peak_load_apparent) ==
    IF peak_load_apparent > 0
        THEN Fraction(tier_peak_apparent * 100, peak_load_apparent * PctDen)
        ELSE Fraction(0, 1)

\* the five metrics of a tier summary; the peaks are numerators over peak_den
tier_summary(df, table, peak_load_apparent, priorities) ==
    LET tier_df == priority_filter(df, priorities)
        peak_apparent == array_max(column_sums(tier_df, tier_apparent_weights(tier_df)))
    IN  [total_energy |-> tier_total_energy(table, tier_df),
         peak_real |-> array_max(column_sums(tier_df, tier_real_weights(tier_df))),
         peak_apparent |-> peak_apparent,
         peak_den |-> PctDen,
         load_allocation |-> load_allocation(peak_apparent, peak_load_apparent),
         count |-> Len(tier_df)]

\* the "All Appliances" metrics of _display_summaries
all_summary(df, total, peaks) ==
    [total_energy |-> total,
     peak_real |-> peaks.real,
     peak_apparent |-> peaks.apparent,
     peak_den |-> 1,
     load_allocation |-> Fraction(100, 1),
     count |-> Len(df)]

EssentialMedium == {"essential", "medium"}
EssentialOnly == {"essential"}

\* (the three summaries displayed whether or not a tier has a record)
display_summaries_every_tier(df, table, total, peaks) ==
    [tier \in {"all", "essential_medium", "essential"} |->
        CASE tier = "all" -> all_summary(df, total, peaks)
          [] tier = "essential_medium" ->
                tier_summary(df, table, peaks.apparent, EssentialMedium)
          [] tier = "essential" ->
                tier_summary(df, table, peaks.apparent, EssentialOnly)]

\* _display_summaries: a tier's summary is displayed only when its subset is not empty
display_summaries(df, table, total, peaks) ==
    LET shown == {"all"}
            \cup (IF priority_filter(df, EssentialMedium) # <<>>
                    THEN {"essential_medium"} ELSE {})
            \cup (IF priority_filter(df, EssentialOnly) # <<>>
                    THEN {"essential"} ELSE {})
    IN  [tier \in shown |->
            CASE tier = "all" -> all_summary(df, total, peaks)
              [] tier = "essential_medium" ->
                    tier_summary(df, table, peaks.apparent, EssentialMedium)
              [] tier = "essential" ->
                    tier_summary(df, table, peaks.apparent, EssentialOnly)]

----------------------------------------------------------------------------
(* LoadProfileApp: the charts *)

\* the per-interval column sums of a table: plot_df.sum(axis=1) of _display_charts
\* and average_power_df.set_index("Appliance")[time_periods].sum()
table_column_sums(table) ==
    [t \in time_periods |-> SeqSum([i \in DOMAIN table |-> table[i].e[t]])]

\* df[df["Priority"].isin(priorities_to_show)]
isin_filter(df, priorities_to_show) ==
    SelectSeq(df, LAMBDA row : row.Priority \in priorities_to_show)

\* _display_time_series_charts: the rows drawn in the filtered chart, with their
\* average power; nothing is drawn when no box is ticked
filtered_power_df(df, priorities_to_show) ==
    IF priorities_to_show = {}
        THEN <<>>
        ELSE LET filtered_df == isin_filter(df, priorities_to_show)
             IN  [i \in DOMAIN filtered_df |->
                    [Appliance |-> filtered_df[i].Appliance,
                     Priority |-> filtered_df[i].Priority,
                     e |-> compute_average_power(filtered_df[i])]]

\* the appliance names of the model that match "Geyser|Stove", case ignored
HeatingNames == {"Geyser", "Stove", "Electric Stove"}

\* df[~df["Appliance"].str.contains("Geyser|Stove", case=False)]
without_heating(df) ==
    SelectSeq(df, LAMBDA row : row.Appliance \notin HeatingNames)

\* the three profiles of comparison_df
comparison_profiles(df) ==
    LET ess_med_df == without_heating(priority_filter(df, EssentialMedium))
        ess_df == priority_filter(df, EssentialOnly)
    IN  [all |-> table_column_sums(average_power_table(df)),
         ess_med |-> column_sums(ess_med_df, real_weights(ess_med_df)),
         ess |-> column_sums(ess_df, real_weights(ess_df))]

\* row[t] raises KeyError when the frame lacks the column of an interval
missing_time_periods(df) ==
    \E i \in DOMAIN df : ~(time_periods \subseteq DOMAIN df[i].sched)

----------------------------------------------------------------------------
(* DatabaseManager.save_data and the snapshot of the session *)

\* set(df.set_index('id').index)
index_ids(df) ==
    {df[i].id : i \in DOMAIN df}

\* df.set_index('id').loc[id_], for a frame with unique ids
loc(df, id_) ==
    df[CHOOSE i \in DOMAIN df : df[i].id = id_]

\* the ids of a set, one after the other
RECURSIVE ids_in_order(_)
ids_in_order(S) ==
    IF S = {} THEN <<>>
    ELSE LET first == CHOOSE x \in S : \A y \in S : x <= y
         IN  <<first>> \o ids_in_order(S \ {first})

\* a row of change_log (without its details and timestamp)
change_entry(change_type, id_, name) ==
    [change_type |-> change_type, appliance_id |-> id_, appliance_name |-> name]

\* for id_ in deleted_ids: the DELETE entries
deleted_entries(new_df, old_df) ==
    LET deleted_ids == ids_in_order(index_ids(old_df) \ index_ids(new_df))
    IN  [k \in DOMAIN deleted_ids |->
            change_entry("DELETE", deleted_ids[k], loc(old_df, deleted_ids[k]).Appliance)]

\* for id_ in new_df_indexed.index: the UPDATE and INSERT entries
upsert_entries(new_df, old_df) ==
    LET change_type(row) ==
            IF row.id \in index_ids(old_df)
                THEN IF row # loc(old_df, row.id) THEN "UPDATE" ELSE "NONE"
                ELSE "INSERT"
        entries == [i \in DOMAIN new_df |->
                        change_entry(change_type(new_df[i]), new_df[i].id,
                                     new_df[i].Appliance)]
    IN  SelectSeq(entries, LAMBDA e : e.change_type # "NONE")

\* save_data(new_df, old_df) when nothing raises: the entries logged and the
\* table replaced by new_df
save_data(new_df, old_df) ==
    [change_log |-> deleted_entries(new_df, old_df) \o upsert_entries(new_df, old_df),
     appliances |-> new_df]

\* (the snapshot replaced whatever save_data returned)
original_df_always_replaced(saved, edited, original) ==
    edited

\* if save_data(...): st.session_state.original_df = edited_df.copy()
original_df_after_save(saved, edited, original) ==
    IF saved THEN edited ELSE original

----------------------------------------------------------------------------
(* The batches the environment supplies: the rows of the appliances table   *)
(* as loaded and edited.  Stored values are not range-checked by the table, *)
(* so a row may hold out-of-range numbers.                                  *)

\* schedules: on in the listed intervals
on_in(S) ==
    [t \in time_periods |-> IF t \in S THEN 1 ELSE 0]

Schedules == {on_in({1}), on_in({2, 3})}

Names == {"Fridge", "Geyser"}

Priorities == {"essential", "medium", "non-essential"}

\* Quantity, Power, DutyCycle, PowerFactor, UseTime
Numbers ==
    { <<1, 10000, 100, 100, 50>>,
      <<2, 300, 40, 85, 150>>,
      <<3, -100, 150, 0, 150>> }

\* the stored derived columns of a row, stale until the pass recomputes them
StoredApparent == 0
StoredDailyEnergy == 0

make_row(name, n, s, p) ==
    [Appliance |-> name, Quantity |-> n[1], Power |-> n[2], DutyCycle |-> n[3],
     PowerFactor |-> n[4], UseTime |-> n[5], sched |-> s, Priority |-> p,
     Room |-> "Kitchen", ApparentPower |-> StoredApparent,
     TotalDailyEnergy |-> StoredDailyEnergy]

Rows ==
    {make_row(name, n, s, p) : name \in Names, n \in Numbers, s \in Schedules,
                               p \in Priorities}

\* every frame of at most n rows
frames(rows, n) ==
    UNION {[1..k -> rows] : k \in 0..n}

\* the rows of the validator harness: every combination of a value below, inside
\* and above each column's range
RawNumbers ==
    {-1, 2} \X {-100, 10000} \X {-10, 50, 150} \X {0, 85, 150} \X {-10, 50, 150}

RawRows ==
    {make_row("Fridge", n, on_in({1}), "essential") : n \in RawNumbers}

----------------------------------------------------------------------------
(* Further appliances tables, each holding the rows one family of inputs    *)
(* needs.  A session works on one table throughout.                         *)

\* rows that contribute nothing: quantity 0 or an all-off schedule
ZeroNumbers == {<<0, 10000, 100, 100, 50>>, <<1, 10000, 100, 100, 50>>}

ZeroRows ==
    {make_row(name, n, s, p) : name \in Names, n \in ZeroNumbers,
                               s \in {on_in({}), on_in({1})},
                               p \in {"essential", "non-essential"}}

\* powers with two decimals: 0.04 W, 0.06 W, 0.25 W, next to 100 W
FineNumbers ==
    { <<1, 4, 100, 100, 100>>,
      <<1, 4, 100, 0, 100>>,
      <<1, 6, 100, 100, 100>>,
      <<2, 25, 100, 85, 50>>,
      <<1, 10000, 100, 85, 50>> }

FineRows ==
    {make_row("Fridge", n, on_in({1}), p) : n \in FineNumbers,
                                           p \in {"essential", "non-essential"}}

\* a table with n interval columns: on in the listed ones
on_in_columns(S, n) ==
    [t \in 1..n |-> IF t \in S THEN 1 ELSE 0]

\* the rows of a table that has n interval columns instead of NumIntervals
MalformedRows(n) ==
    {make_row(name, num, s, p) :
        name \in Names,
        num \in {<<1, 10000, 100, 100, 50>>, <<2, 300, 40, 85, 150>>},
        s \in {on_in_columns({1}, n), on_in_columns({n}, n)},
        p \in {"essential", "medium"}}

\* a column too few (a legacy table) or a column too many (the legacy
\* "22:00-24:00" column that migrate_time_columns could not drop)
MalformedFrames ==
    UNION {frames(MalformedRows(n), MaxRecords) \ {<<>>} :
                n \in {NumIntervals - 1, NumIntervals + 1}}

\* priorities in other letter cases
SpellingRows ==
    {make_row("Fridge", n, on_in({1}), p) :
        n \in {<<1, 10000, 100, 100, 50>>, <<2, 300, 40, 85, 150>>},
        p \in {"Essential", "essential", "Medium", "non-essential"}}

\* schedule cells holding an INTEGER other than 0 and 1
CellSchedules ==
    { on_in({1}),
      [t \in time_periods |-> IF t = 1 THEN 2 ELSE 0],
      [t \in time_periods |-> IF t = 1 THEN 2 ELSE IF t = 2 THEN 1 ELSE 0] }

CellRows ==
    {make_row("Fridge", n, s, p) :
        n \in {<<1, 10000, 100, 100, 50>>, <<2, 300, 40, 85, 150>>},
        s \in CellSchedules,
        p \in {"essential", "non-essential"}}

\* rows with the id column of the table, for the sessions that save
Ids == {1, 2}

with_id(row, id_) ==
    [f \in DOMAIN row \cup {"id"} |-> IF f = "id" THEN id_ ELSE row[f]]

SessionRows ==
    {with_id(make_row("Fridge", n, on_in({1}), "essential"), id_) :
        n \in ZeroNumbers, id_ \in Ids}

unique_ids(df) ==
    \A i, j \in DOMAIN df : i # j => df[i].id # df[j].id

SessionFrames ==
    {df \in frames(SessionRows, MaxRecords) : unique_ids(df)}

\* the table of a session that does not save
DefaultTable ==
    <<make_row("Fridge", <<1, 10000, 100, 100, 50>>, on_in({1}), "essential")>>

\* the tables a session can start on; initialize_with_default_data stores the
\* apparent power derived and a total daily energy of 0
stored_tables(d) ==
    IF d = "session"
        THEN {derive_apparent(df) : df \in SessionFrames \ {<<>>}}
        ELSE {DefaultTable}

\* what the "Save Changes" button and save_data can bring, per table
save_outcomes(d) ==
    IF d = "session" THEN {"not_requested", "saved", "failed"} ELSE {"not_requested"}

\* the frames the data editor can return, per table
editor_frames(d) ==
    CASE d = "catalogue" -> frames(Rows, MaxRecords)
      [] d = "zero" -> frames(ZeroRows, MaxRecords)
      [] d = "fine" -> frames(FineRows, MaxRecords)
      [] d = "malformed" -> MalformedFrames
      [] d = "spelling" -> frames(SpellingRows, MaxRecords)
      [] d = "cells" -> frames(CellRows, MaxRecords)
      [] d = "session" -> SessionFrames

\* the check boxes "Show Essential Only", "Show Medium Priority" and
\* "Show Non-Essential", as the set of priorities ticked
DefaultBoxes == {"medium", "non-essential"}

\* the settings of the check boxes tried, per table
check_boxes(d) ==
    IF d = "spelling" THEN SUBSET Priorities ELSE {DefaultBoxes}

----------------------------------------------------------------------------
(* LoadProfileApp.run, one pass:                                            *)
(* load -> editor -> validate -> calculate -> display                       *)

NoTable == <<>>
NoSeries == <<>>
NoView == [priorities_to_show |-> {}, rows |-> <<>>]
NoPeaks == [real |-> 0, apparent |-> 0]
NoMetrics == <<>>
NoProfiles == <<>>
NoSnapshot == [keys |-> {}, original_df |-> <<>>]

\* the state of a session on table d before its first pass
InitOn(d) ==
    /\ dataset = d
    /\ appliances \in stored_tables(d)
    /\ session_state = NoSnapshot
    /\ pc = "load"
    /\ save_result = "not_requested"
    /\ change_log = <<>>
    /\ editor_df = <<>>
    /\ edited_df = <<>>
    /\ energy_df = NoTable
    /\ average_power_df = NoTable
    /\ total_energy = 0
    /\ total_load = NoSeries
    /\ filtered_view = NoView
    /\ peak_loads = NoPeaks
    /\ metrics = NoMetrics
    /\ comparison = NoProfiles

Init == InitOn("catalogue")

\* df = load_data(); if df.empty: st.error(...); st.stop()
\* if 'original_df' not in st.session_state: st.session_state.original_df = df.copy()
LoadData ==
    /\ pc = "load"
    /\ \E raised \in BOOLEAN :
            LET df == IF raised THEN <<>> ELSE appliances
            IN  IF df = <<>>
                    THEN /\ pc' = "stopped"
                         /\ UNCHANGED session_state
                    ELSE /\ pc' = "editor"
                         /\ session_state' =
                                IF "original_df" \notin session_state.keys
                                    THEN [keys |-> {"original_df"}, original_df |-> df]
                                    ELSE session_state
    /\ UNCHANGED <<dataset, appliances, editor_df, edited_df, energy_df,
                   average_power_df, total_energy, save_result, change_log,
                   total_load, filtered_view, peak_loads, metrics, comparison>>

\* edited_df = self._create_data_editor(df)
DataEditor ==
    /\ pc = "editor"
    /\ \E df \in editor_frames(dataset) :
            /\ editor_df' = df
            /\ edited_df' = df
    /\ pc' = "validate"
    /\ UNCHANGED <<dataset, appliances, session_state, save_result, change_log,
                   energy_df, average_power_df, total_energy, total_load,
                   filtered_view, peak_loads, metrics, comparison>>

\* edited_df = validate_df(edited_df); edited_df["Apparent Power (VA)"] = ...
Validate ==
    /\ pc = "validate"
    /\ LET call == validate_df(editor_df)
       IN  /\ editor_df' = call.caller
           /\ edited_df' = derive_apparent(call.result)
    /\ pc' = "calculate"
    /\ UNCHANGED <<dataset, appliances, session_state, save_result, change_log,
                   energy_df, average_power_df, total_energy, total_load,
                   filtered_view, peak_loads, metrics, comparison>>

\* _calculate_energy_and_power, the daily totals and total_energy; the KeyError
\* of row[t] ends the pass
Calculate ==
    /\ pc = "calculate"
    /\ IF missing_time_periods(edited_df)
         THEN /\ pc' = "failed"
              /\ UNCHANGED <<edited_df, energy_df, average_power_df, total_energy>>
         ELSE /\ energy_df' = energy_table(edited_df)
              /\ average_power_df' = average_power_table(edited_df)
              /\ edited_df' = with_daily_totals(edited_df, energy_df')
              /\ total_energy' = daily_total_sum(edited_df')
              /\ pc' = "display"
    /\ UNCHANGED <<dataset, appliances, session_state, save_result, change_log,
                   editor_df, total_load, filtered_view, peak_loads,
                   metrics, comparison>>

\* the "Save Changes" button, then _display_charts, _display_summaries and
\* _display_comparison_charts
DisplayResults ==
    /\ pc = "display"
    /\ \E outcome \in save_outcomes(dataset) :
            LET call == save_data(edited_df, session_state.original_df)
            IN  /\ save_result' = outcome
                /\ change_log' = IF outcome = "saved" THEN call.change_log ELSE <<>>
                /\ appliances' = IF outcome = "saved" THEN call.appliances ELSE appliances
                /\ session_state' =
                        IF outcome = "not_requested"
                            THEN session_state
                            ELSE [session_state EXCEPT !.original_df =
                                    original_df_after_save(outcome = "saved", edited_df, @)]
    /\ total_load' = table_column_sums(average_power_df)
    /\ \E priorities_to_show \in check_boxes(dataset) :
            filtered_view' =
                [priorities_to_show |-> priorities_to_show,
                 rows |-> filtered_power_df(edited_df, priorities_to_show)]
    /\ peak_loads' = calculate_peak_loads(edited_df)
    /\ metrics' = display_summaries(edited_df, energy_df, total_energy, peak_loads')
    /\ comparison' = comparison_profiles(edited_df)
    /\ pc' = "done"
    /\ UNCHANGED <<dataset, editor_df, edited_df, energy_df, average_power_df,
                   total_energy>>

\* Streamlit runs the script again on the next interaction; st.session_state
\* and the database stay
Rerun ==
    /\ pc \in {"done", "failed", "stopped"}
    /\ pc' = "load"
    /\ editor_df' = <<>>
    /\ edited_df' = <<>>
    /\ energy_df' = NoTable
    /\ average_power_df' = NoTable
    /\ total_energy' = 0
    /\ save_result' = "not_requested"
    /\ change_log' = <<>>
    /\ total_load' = NoSeries
    /\ filtered_view' = NoView
    /\ peak_loads' = NoPeaks
    /\ metrics' = NoMetrics
    /\ comparison' = NoProfiles
    /\ UNCHANGED <<dataset, appliances, session_state>>

Next ==
    \/ LoadData
    \/ DataEditor
    \/ Validate
    \/ Calculate
    \/ DisplayResults
    \/ Rerun

Spec == Init /\ [][Next]_vars

\* sessions on the other tables
SpecZero == InitOn("zero") /\ [][Next]_vars
SpecFine == InitOn("fine") /\ [][Next]_vars
SpecMalformed == InitOn("malformed") /\ [][Next]_vars
SpecSpelling == InitOn("spelling") /\ [][Next]_vars
SpecCells == InitOn("cells") /\ [][Next]_vars
SpecSession == InitOn("session") /\ [][Next]_vars

----------------------------------------------------------------------------
(* The validator on its own: validate(x), then validate(validate(x)) *)

InitValidator ==
    /\ dataset = "raw"
    /\ appliances = <<>>
    /\ session_state = NoSnapshot
    /\ save_result = "not_requested"
    /\ change_log = <<>>
    /\ pc = "validate"
    /\ editor_df \in frames(RawRows, MaxBatch)
    /\ edited_df = editor_df
    /\ energy_df = NoTable
    /\ average_power_df = NoTable
    /\ total_energy = 0
    /\ total_load = NoSeries
    /\ filtered_view = NoView
    /\ peak_loads = NoPeaks
    /\ metrics = NoMetrics
    /\ comparison = NoProfiles

\* y = validate_df(x)
ValidateOnce ==
    /\ pc = "validate"
    /\ LET call == validate_df(editor_df)
       IN  /\ editor_df' = call.caller
           /\ edited_df' = call.result
    /\ pc' = "validated"
    /\ UNCHANGED <<dataset, appliances, session_state, save_result, change_log,
                   energy_df, average_power_df, total_energy, total_load,
                   filtered_view, peak_loads, metrics, comparison>>

\* z = validate_df(y)
ValidateAgain ==
    /\ pc = "validated"
    /\ edited_df' = validate_df(edited_df).result
    /\ pc' = "revalidated"
    /\ UNCHANGED <<dataset, appliances, session_state, save_result, change_log,
                   editor_df, energy_df, average_power_df, total_energy,
                   total_load, filtered_view, peak_loads, metrics, comparison>>

NextValidator ==
    \/ ValidateOnce
    \/ ValidateAgain

SpecValidator == InitValidator /\ [][NextValidator]_vars

----------------------------------------------------------------------------
(* Properties of the validator *)

\* y is x when x lies in [lo, hi] and the nearest bound of [lo, hi] otherwise
Clamped(x, y, lo, hi) ==
    /\ y >= lo /\ y <= hi
    /\ (x < lo => y = lo)
    /\ (x > hi => y = hi)
    /\ (x >= lo /\ x <= hi => y = x)

\* the same for a range with no upper bound
ClampedBelow(x, y, lo) ==
    /\ y >= lo
    /\ (x < lo => y = lo)
    /\ (x >= lo => y = x)

\* C1: validate returns a batch in which every record has use_time_pct in
\* [0,100], power_watts >= 0, duty_cycle_pct in [0,100], power_factor in
\* [0.01,1.0] and quantity >= 0; each output field is the input field when that
\* was in range and the nearest bound of its own range otherwise, whatever the
\* other fields hold.
C1_ValidateClamps ==
    pc = "validated" =>
        /\ Len(edited_df) = Len(editor_df)
        /\ \A i \in DOMAIN edited_df :
            /\ Clamped(editor_df[i].UseTime, edited_df[i].UseTime, 0, 100)
            /\ ClampedBelow(editor_df[i].Power, edited_df[i].Power, 0)
            /\ Clamped(editor_df[i].DutyCycle, edited_df[i].DutyCycle, 0, 100)
            /\ Clamped(editor_df[i].PowerFactor, edited_df[i].PowerFactor, 1, 100)
            /\ ClampedBelow(editor_df[i].Quantity, edited_df[i].Quantity, 0)

\* a validated record with one field above its range, one below and one inside
C1_Witness ==
    /\ pc = "validated"
    /\ \E i \in DOMAIN editor_df :
        /\ editor_df[i].UseTime > 100
        /\ editor_df[i].PowerFactor < 1
        /\ editor_df[i].DutyCycle = 50
        /\ edited_df[i].UseTime = 100
        /\ edited_df[i].PowerFactor = 1

\* C2: clamping is idempotent: validating a validated batch returns it
\* unchanged, field by field.
C2_ValidateIdempotent ==
    [][pc = "validated" /\ pc' = "revalidated" => edited_df' = edited_df]_vars

\* a batch validated twice whose first validation changed a field
C2_Witness ==
    /\ pc = "revalidated"
    /\ \E i \in DOMAIN editor_df :
        /\ editor_df[i].UseTime > 100
        /\ editor_df[i].Quantity < 0
        /\ edited_df[i].UseTime = 100

\* C3: validate does not mutate its input: the caller's batch holds the same
\* records with the same values after the call, out-of-range values included,
\* and the output has as many records, with name, schedule, priority and room
\* unchanged.
C3_ValidateKeepsInput ==
    [][pc = "validate" /\ pc' = "validated" =>
        /\ editor_df' = editor_df
        /\ Len(edited_df') = Len(editor_df)
        /\ \A i \in DOMAIN editor_df :
            /\ edited_df'[i].Appliance = editor_df[i].Appliance
            /\ edited_df'[i].sched = editor_df[i].sched
            /\ edited_df'[i].Priority = editor_df[i].Priority
            /\ edited_df'[i].Room = editor_df[i].Room]_vars

\* after the call the caller's batch still holds an out-of-range value that the
\* output has clamped
C3_Witness ==
    /\ pc = "validated"
    /\ \E i \in DOMAIN editor_df :
        /\ editor_df[i].DutyCycle > 100
        /\ edited_df[i].DutyCycle = 100

----------------------------------------------------------------------------
(* Properties of the calculation pass.  The right-hand sides are written    *)
(* from the formulas of the specification, over the validated batch.        *)

RECURSIVE SetSum(_, _)
SetSum(f, S) ==
    IF S = {} THEN 0
    ELSE LET x == CHOOSE y \in S : TRUE
         IN  f[x] + SetSum(f, S \ {x})

\* is_on(schedule[r][t])
IsOn(row, t) ==
    row.sched[t] # 0

Calculated == pc \in {"display", "done"}

\* the tiers other than "all", with the priorities each selects
FilteredTiers == {"essential_medium", "essential"}

TierPriorities(tier) ==
    IF tier = "essential" THEN {"essential"} ELSE {"essential", "medium"}

\* the records of the validated batch that belong to a tier
TierRecords(tier) ==
    {i \in DOMAIN edited_df : str_lower(edited_df[i].Priority) \in TierPriorities(tier)}

\* max over the intervals of the sum, over the records R scheduled on, of w
PeakOver(R, w) ==
    SetMax({SetSum([i \in R |-> IF IsOn(edited_df[i], t) THEN w[i] ELSE 0], R)
                : t \in time_periods})

\* C4: energy[r][t] = 2 * quantity * power_watts * (duty_cycle_pct/100) *
\* (use_time_pct/100) when record r is scheduled on in t and 0 when it is not,
\* and the record's total daily energy is the sum of energy[r][t] over all
\* intervals.
C4_EnergyFormula ==
    Calculated =>
        /\ Len(energy_df) = Len(edited_df)
        /\ \A i \in DOMAIN edited_df :
            /\ \A t \in time_periods :
                energy_df[i].e[t] =
                    IF IsOn(edited_df[i], t)
                        THEN 2 * edited_df[i].Quantity * edited_df[i].Power
                                * edited_df[i].DutyCycle * edited_df[i].UseTime
                        ELSE 0
            /\ edited_df[i].TotalDailyEnergy = SetSum(energy_df[i].e, time_periods)

\* a record on in two intervals, with use time and duty cycle below 100 %
C4_Witness ==
    /\ pc = "display"
    /\ \E i \in DOMAIN edited_df :
        /\ edited_df[i].sched = on_in({2, 3})
        /\ edited_df[i].UseTime = 50
        /\ energy_df[i].e[1] = 0
        /\ energy_df[i].e[2] > 0
        /\ edited_df[i].TotalDailyEnergy = 2 * energy_df[i].e[2]

\* C5: avg_power[r][t] = quantity * power_watts when record r is scheduled on
\* in t and 0 otherwise, and changing duty_cycle_pct or use_time_pct leaves
\* every avg_power value unchanged.
C5_AveragePowerFormula ==
    Calculated =>
        /\ Len(average_power_df) = Len(edited_df)
        /\ \A i \in DOMAIN edited_df :
            /\ \A t \in time_periods :
                average_power_df[i].e[t] =
                    IF IsOn(edited_df[i], t)
                        THEN edited_df[i].Quantity * edited_df[i].Power
                        ELSE 0
            /\ \A d \in {0, 40, 100}, u \in {0, 50, 100} :
                compute_average_power(
                    [edited_df[i] EXCEPT !.DutyCycle = d, !.UseTime = u])
                    = average_power_df[i].e

\* a record drawing power while on, with a use time of 50 %
C5_Witness ==
    /\ pc = "display"
    /\ \E i \in DOMAIN edited_df :
        /\ edited_df[i].UseTime = 50
        /\ average_power_df[i].e[1] = 10000
        /\ average_power_df[i].e[2] = 0

\* C6: over the unfiltered batch, peak real = max over t of the sum over all
\* records of quantity * power_watts * is_on, and peak apparent the same with
\* apparent_power_va; neither is scaled by use_time_pct or duty_cycle_pct.
C6_PeakLoads ==
    pc = "done" =>
        /\ peak_loads.real =
            PeakOver(DOMAIN edited_df,
                [i \in DOMAIN edited_df |-> edited_df[i].Quantity * edited_df[i].Power])
        /\ peak_loads.apparent =
            PeakOver(DOMAIN edited_df,
                [i \in DOMAIN edited_df |->
                    edited_df[i].Quantity * edited_df[i].ApparentPower])

\* two records on in the same interval, one with use time 50 % and one with
\* duty cycle 40 %: the peak is the sum of their nameplate draws
C6_Witness ==
    /\ pc = "done"
    /\ Len(edited_df) = 2
    /\ edited_df[1].sched = edited_df[2].sched
    /\ edited_df[1].UseTime = 50
    /\ edited_df[2].DutyCycle = 40
    /\ peak_loads.real = 10000 + 2 * 300
    /\ peak_loads.apparent = 10000 + 2 * 350

\* the concrete scenario of the specification: one essential record, quantity 1,
\* 100 W, duty cycle 100 %, power factor 1.0, use time 50 %, on in the first
\* interval only
ScenarioBatch ==
    /\ Len(edited_df) = 1
    /\ edited_df[1].Quantity = 1
    /\ edited_df[1].Power = 100 * 100
    /\ edited_df[1].DutyCycle = 100
    /\ edited_df[1].PowerFactor = 100
    /\ edited_df[1].UseTime = 50
    /\ edited_df[1].sched = on_in({1})
    /\ edited_df[1].Priority = "essential"

\* C7: for the essential+medium and the essential-only tier, peak real power
\* is max over t of the sum over the tier's records of quantity * power_watts
\* * (use_time_pct/100) * is_on, and peak apparent power the same with
\* apparent_power_va; in the concrete scenario the unfiltered peak real is
\* 100 W and the essential-tier peak real is 50 W.
C7_TierPeaks ==
    pc = "done" =>
        /\ \A tier \in FilteredTiers \cap DOMAIN metrics :
            /\ metrics[tier].peak_den = PctDen
            /\ metrics[tier].peak_real =
                PeakOver(TierRecords(tier),
                    [i \in TierRecords(tier) |->
                        edited_df[i].Quantity * edited_df[i].Power * edited_df[i].UseTime])
            /\ metrics[tier].peak_apparent =
                PeakOver(TierRecords(tier),
                    [i \in TierRecords(tier) |->
                        edited_df[i].Quantity * edited_df[i].ApparentPower
                            * edited_df[i].UseTime])
        /\ ScenarioBatch =>
            /\ peak_loads.real = 100 * 100
            /\ "essential" \in DOMAIN metrics
            /\ metrics["essential"].peak_real = 50 * 100 * metrics["essential"].peak_den

\* the concrete scenario, summaries displayed
C7_Witness ==
    /\ pc = "done"
    /\ ScenarioBatch
    /\ DOMAIN metrics = {"all", "essential_medium", "essential"}

\* C8: each tier's total daily energy is the sum of the daily totals of exactly
\* the records whose priority matches the tier; a record whose priority is
\* outside the tier contributes nothing to the tier's energy or peak figures.
C8_TierEnergyBySubset ==
    pc = "done" =>
        \A tier \in FilteredTiers \cap DOMAIN metrics :
            /\ metrics[tier].total_energy =
                SetSum([i \in TierRecords(tier) |-> edited_df[i].TotalDailyEnergy],
                       TierRecords(tier))
            /\ metrics[tier].count = Cardinality(TierRecords(tier))

\* C9: tier monotonicity: essential-only total energy <= essential+medium
\* total energy <= all-appliances total energy, over the summaries displayed.
C9_TierMonotone ==
    pc = "done" =>
        /\ "all" \in DOMAIN metrics
        /\ "essential" \in DOMAIN metrics =>
            /\ "essential_medium" \in DOMAIN metrics
            /\ metrics["essential"].total_energy
                <= metrics["essential_medium"].total_energy
        /\ "essential_medium" \in DOMAIN metrics =>
            metrics["essential_medium"].total_energy <= metrics["all"].total_energy

\* an essential and a non-essential record, both consuming energy: the three
\* totals are displayed and the last inequality is strict
C9_Witness ==
    /\ pc = "done"
    /\ DOMAIN metrics = {"all", "essential_medium", "essential"}
    /\ 0 < metrics["essential"].total_energy
    /\ metrics["essential_medium"].total_energy < metrics["all"].total_energy

\* the allocation num / den of a tier is tier_peak_apparent / all_peak_apparent
\* * 100 and lies in [0, 100] when the all-appliances peak apparent power is
\* positive, and is exactly 0 when that is 0
AllocationBound(tier) ==
    LET a == metrics[tier].load_allocation
    IN  /\ peak_loads.apparent > 0 =>
            /\ a.den > 0
            /\ a = Fraction(metrics[tier].peak_apparent * 100,
                            peak_loads.apparent * metrics[tier].peak_den)
            /\ 0 <= a.num
            /\ a.num <= 100 * a.den
        /\ peak_loads.apparent = 0 =>
            /\ a.den > 0
            /\ a.num = 0

\* C10 as stated: for every validated batch (here: one that holds a record) and
\* every tier, "all" included, load_allocation_pct = tier_peak_apparent /
\* all_peak_apparent * 100 lies in [0,100] when the all-appliances peak
\* apparent power is > 0 and is exactly 0 when it is 0.
C10_AllocationEveryTier ==
    pc = "done" /\ Len(edited_df) > 0 =>
        \A tier \in DOMAIN metrics : AllocationBound(tier)

\* C10 as amended: for the essential+medium and the essential-only tier,
\* load_allocation_pct = tier_peak_apparent / all_peak_apparent * 100 lies in
\* [0,100] when the all-appliances peak apparent power is > 0 and is exactly 0
\* when it is 0; the all-appliances summary shows a fixed 100.0 %.
C10_AllocationFilteredTiers ==
    pc = "done" =>
        /\ \A tier \in FilteredTiers \cap DOMAIN metrics : AllocationBound(tier)
        /\ metrics["all"].load_allocation = Fraction(100, 1)

\* an essential record in a batch whose all-appliances peak apparent power is 0
C10_Witness ==
    /\ pc = "done"
    /\ "essential" \in DOMAIN metrics
    /\ peak_loads.apparent = 0
    /\ metrics["essential"].load_allocation.num = 0

----------------------------------------------------------------------------
(* Properties of a batch against the batch without one of its records *)

AllTiers == {"all"} \cup FilteredTiers

\* a record with quantity 0 or with every schedule entry off
ZeroRecord(row) ==
    \/ row.Quantity = 0
    \/ \A t \in time_periods : ~IsOn(row, t)

\* the batch without its k-th record
WithoutRecord(df, k) ==
    [i \in 1..(Len(df) - 1) |-> IF i < k THEN df[i] ELSE df[i + 1]]

\* the summaries a pass displays for the validated batch df
SummariesOf(df) ==
    LET table == energy_table(df)
    IN  display_summaries(df, table, daily_total_sum(with_daily_totals(df, table)),
                          calculate_peak_loads(df))

\* a tier's total energy and peaks as displayed; a tier that is not displayed
\* shows no energy and no load
TierEnergy(m, tier) ==
    IF tier \in DOMAIN m THEN m[tier].total_energy ELSE 0

TierPeaks(m, tier) ==
    IF tier \in DOMAIN m
        THEN <<m[tier].peak_real, m[tier].peak_apparent>>
        ELSE <<0, 0>>

\* C11: a record with quantity 0 or an all-off schedule has energy 0 and
\* average power 0 in every interval and daily total 0, and the batch without it
\* has the same unfiltered peaks and, in every tier, the same total energy and
\* the same peaks.
C11_ZeroContribution ==
    pc = "done" =>
        \A k \in DOMAIN edited_df :
            ZeroRecord(edited_df[k]) =>
                /\ \A t \in time_periods :
                        /\ energy_df[k].e[t] = 0
                        /\ average_power_df[k].e[t] = 0
                /\ edited_df[k].TotalDailyEnergy = 0
                /\ LET rest == WithoutRecord(edited_df, k)
                       m == SummariesOf(rest)
                   IN  /\ calculate_peak_loads(rest) = peak_loads
                       /\ \A tier \in AllTiers :
                            /\ TierEnergy(m, tier) = TierEnergy(metrics, tier)
                            /\ TierPeaks(m, tier) = TierPeaks(metrics, tier)

----------------------------------------------------------------------------
(* Properties of the derived apparent power *)

Derived == pc \in {"calculate", "display", "done"}

\* x.round(1) of a power x, in hundredths of a watt
RoundedPower(x) ==
    LET scale == Pow10(ApparentDecimals)
    IN  (PctDen \div scale) * RoundHalfEven(x * scale, PctDen)

\* C12 as stated: the derived apparent power of every validated record is at
\* least its power.
C12_ApparentAtLeastReal ==
    Derived =>
        \A i \in DOMAIN edited_df :
            edited_df[i].ApparentPower >= edited_df[i].Power

\* C12, amended: the derived apparent power of every validated record is at
\* least its power rounded to one decimal, hence less than 0.05 W below its
\* power, and at least its power when the power has at most one decimal.
C12_ApparentAtLeastRoundedReal ==
    Derived =>
        \A i \in DOMAIN edited_df :
            LET row == edited_df[i]
            IN  /\ row.ApparentPower >= RoundedPower(row.Power)
                /\ 2 * (row.Power - row.ApparentPower) <= PctDen \div Pow10(ApparentDecimals)
                /\ (row.Power = RoundedPower(row.Power)
                        => row.ApparentPower >= row.Power)

\* a batch with 100 W at power factor 0.85 (117.6 VA) and with 0.04 W at power
\* factor 1.0 (0.0 VA) has been derived
C12_Witness ==
    /\ Derived
    /\ \E i, j \in DOMAIN edited_df :
            /\ edited_df[i].Power = 10000 /\ edited_df[i].PowerFactor = 85
            /\ edited_df[i].ApparentPower = 11760
            /\ edited_df[j].Power = 4 /\ edited_df[j].PowerFactor = 100
            /\ edited_df[j].ApparentPower = 0

----------------------------------------------------------------------------
(* Properties of empty batches and empty tiers *)

\* the records of the validated batch that a tier, "all" included, selects
RecordsOf(tier) ==
    IF tier = "all" THEN DOMAIN edited_df ELSE TierRecords(tier)

\* a summary with every metric 0
ZeroSummary(summary) ==
    /\ summary.total_energy = 0
    /\ summary.peak_real = 0
    /\ summary.peak_apparent = 0
    /\ summary.load_allocation = Fraction(0, 1)
    /\ summary.count = 0

\* nothing has been computed or displayed in this pass
NothingProduced ==
    /\ energy_df = NoTable
    /\ average_power_df = NoTable
    /\ total_energy = 0
    /\ total_load = NoSeries
    /\ filtered_view = NoView
    /\ peak_loads = NoPeaks
    /\ metrics = NoMetrics
    /\ comparison = NoProfiles

\* C13 as stated (here: for a batch that holds a record): the pass completes,
\* and a tier whose filtered subset is empty has its summary produced with
\* total energy 0, peak real 0, peak apparent 0, load allocation 0 % and
\* record count 0.
C13_EmptyTierZeroSummary ==
    /\ pc # "failed"
    /\ pc = "done" /\ Len(edited_df) > 0 =>
            \A tier \in AllTiers :
                RecordsOf(tier) = {} =>
                    /\ tier \in DOMAIN metrics
                    /\ ZeroSummary(metrics[tier])

\* C13, amended: an empty loaded batch stops the pass before anything is
\* computed; for a batch that holds a record the pass completes, the summary
\* of a tier whose filtered subset is empty is not displayed, and the
\* summaries of the other tiers and of all appliances are.
C13_EmptyTierNotDisplayed ==
    /\ pc # "failed"
    /\ pc = "stopped" => NothingProduced
    /\ pc = "done" /\ Len(edited_df) > 0 =>
            \A tier \in AllTiers :
                RecordsOf(tier) = {} <=> tier \notin DOMAIN metrics

\* a batch with a medium record and no essential one has been displayed
C13_Witness ==
    /\ pc = "done"
    /\ TierRecords("essential") = {}
    /\ TierRecords("essential_medium") # {}
    /\ DOMAIN metrics = {"all", "essential_medium"}

----------------------------------------------------------------------------
(* Properties of a batch whose schedule has another length *)

\* the batch from the editor lacks an interval / has schedule entries beyond
\* the configured intervals
TooFew(df) ==
    \E i \in DOMAIN df : Len(df[i].sched) < NumIntervals

TooMany(df) ==
    \E i \in DOMAIN df : Len(df[i].sched) > NumIntervals

\* no table, total or summary exists, and the pass is not past the calculation
Rejected ==
    /\ pc \notin {"display", "done"}
    /\ NothingProduced

\* C14 as stated: a batch whose schedule has too few or too many entries is
\* rejected as a whole; no energy table, power table, total or summary is
\* produced from it.
C14_MalformedRejected ==
    TooFew(editor_df) \/ TooMany(editor_df) => Rejected

\* C14, amended: a batch that lacks a configured interval is rejected as a
\* whole, and only such a batch is; of a batch with more schedule entries than
\* intervals the entries beyond the configured intervals are ignored: the
\* tables have exactly the configured intervals, computed from the first
\* NumIntervals entries.
C14_TooFewRejectedTooManyIgnored ==
    /\ TooFew(editor_df) => Rejected
    /\ pc = "failed" => TooFew(editor_df)
    /\ TooMany(editor_df) /\ pc = "done" =>
            /\ DOMAIN energy_df = DOMAIN edited_df
            /\ DOMAIN average_power_df = DOMAIN edited_df
            /\ \A i \in DOMAIN edited_df :
                LET row == edited_df[i]
                    on(t) == IF row.sched[t] # 0 THEN 1 ELSE 0
                IN  /\ energy_df[i].e =
                            [t \in 1..NumIntervals |->
                                IntervalHours * row.Quantity * row.Power
                                    * row.DutyCycle * row.UseTime * on(t)]
                    /\ average_power_df[i].e =
                            [t \in 1..NumIntervals |->
                                row.Quantity * row.Power * on(t)]
            /\ DOMAIN total_load = 1..NumIntervals
            /\ DOMAIN comparison.all = 1..NumIntervals

\* a batch with a thirteenth schedule entry, on only there, has been computed:
\* its energy is 0
C14_Witness ==
    /\ pc = "done"
    /\ \E i \in DOMAIN edited_df :
            /\ Len(edited_df[i].sched) = NumIntervals + 1
            /\ edited_df[i].sched[NumIntervals + 1] = 1
            /\ edited_df[i].Quantity * edited_df[i].Power > 0
            /\ edited_df[i].TotalDailyEnergy = 0

\* a batch without the last interval has ended the pass in the calculation
C14_WitnessTooFew ==
    /\ pc = "failed"
    /\ TooFew(editor_df)
    /\ NothingProduced

----------------------------------------------------------------------------
(* Properties of the selection by priority *)

\* the validated batch with every priority in its lower-case spelling
LowerCased(df) ==
    [i \in DOMAIN df |-> [df[i] EXCEPT !.Priority = str_lower(df[i].Priority)]]

\* C15: a record whose priority differs from 'essential' / 'medium' /
\* 'non-essential' only in letter case is placed as the lower-case spelling is:
\* the tier summaries, the comparison profiles and the priority-filtered view
\* are those of the batch with the priorities in lower case.
C15_CaseInsensitivePriority ==
    pc = "done" =>
        LET df == LowerCased(edited_df)
        IN  /\ metrics = display_summaries(df, energy_df, total_energy, peak_loads)
            /\ comparison = comparison_profiles(df)
            /\ Len(filtered_view.rows)
                    = Len(filtered_power_df(df, filtered_view.priorities_to_show))

----------------------------------------------------------------------------
(* Properties of the data flow of a pass *)

\* x brought into [lo, hi] / to lo at least
Nearest(x, lo, hi) ==
    IF x < lo THEN lo ELSE IF x > hi THEN hi ELSE x

AtLeast(x, lo) ==
    IF x < lo THEN lo ELSE x

\* the validated record of a raw record, with the apparent power derived from
\* the validated power and power factor
ValidatedRecord(raw) ==
    LET power == AtLeast(raw.Power, PowerMin)
        factor == Nearest(raw.PowerFactor, PowerFactorMin, PowerFactorMax)
    IN  [raw EXCEPT
            !.UseTime = Nearest(raw.UseTime, UseTimeMin, UseTimeMax),
            !.Power = power,
            !.DutyCycle = Nearest(raw.DutyCycle, DutyCycleMin, DutyCycleMax),
            !.PowerFactor = factor,
            !.Quantity = AtLeast(raw.Quantity, QuantityMin),
            !.ApparentPower =
                (PctDen \div Pow10(ApparentDecimals))
                    * RoundHalfEven(power * Pow10(ApparentDecimals), factor)]

\* C16: in every pass nothing is aggregated before the batch is validated and
\* its apparent power derived; from then on the batch is the validated raw
\* batch with the apparent power re-derived from the validated power and power
\* factor, and every energy value, average-power value, daily total, peak and
\* tier peak is computed from that batch.
C16_DataFlow ==
    /\ pc \in {"load", "editor", "validate", "calculate", "stopped"} =>
            NothingProduced
    /\ Derived =>
            /\ DOMAIN edited_df = DOMAIN editor_df
            /\ \A i \in DOMAIN edited_df :
                    [edited_df[i] EXCEPT !.TotalDailyEnergy = 0]
                        = [ValidatedRecord(editor_df[i]) EXCEPT !.TotalDailyEnergy = 0]
    /\ C4_EnergyFormula
    /\ C5_AveragePowerFormula
    /\ C6_PeakLoads
    /\ C7_TierPeaks

\* a pass has displayed a batch whose raw use time (150 %) and stored apparent
\* power (0 VA) differ from the validated use time and the derived apparent
\* power the results were computed from
C16_Witness ==
    /\ pc = "done"
    /\ \E i \in DOMAIN edited_df :
            /\ editor_df[i].UseTime > UseTimeMax
            /\ edited_df[i].UseTime = UseTimeMax
            /\ editor_df[i].ApparentPower = StoredApparent
            /\ edited_df[i].ApparentPower > StoredApparent
            /\ edited_df[i].TotalDailyEnergy > 0
    /\ peak_loads.apparent > 0
    /\ "essential" \in DOMAIN metrics

----------------------------------------------------------------------------
(* Properties of the on/off factor *)

\* 1 if the record is scheduled on in t and 0 if it is not
OnOff(row, t) ==
    IF IsOn(row, t) THEN 1 ELSE 0

\* max over the intervals of the sum over the records of OnOff * w
OnOffPeak(w) ==
    SetMax({SetSum([i \in DOMAIN edited_df |-> OnOff(edited_df[i], t) * w[i]],
                   DOMAIN edited_df) : t \in time_periods})

\* C18: for every schedule cell value the table can hold, the energy, the
\* average power and the peaks multiply by exactly 1 where the cell is on and
\* by exactly 0 where it is off.
C18_OnOffFactor ==
    pc = "done" =>
        /\ \A i \in DOMAIN edited_df : \A t \in time_periods :
                LET row == edited_df[i]
                IN  /\ energy_df[i].e[t] =
                            OnOff(row, t) * IntervalHours * row.Quantity * row.Power
                                * row.DutyCycle * row.UseTime
                    /\ average_power_df[i].e[t] =
                            OnOff(row, t) * row.Quantity * row.Power
        /\ peak_loads.real =
                OnOffPeak([i \in DOMAIN edited_df |->
                                edited_df[i].Quantity * edited_df[i].Power])
        /\ peak_loads.apparent =
                OnOffPeak([i \in DOMAIN edited_df |->
                                edited_df[i].Quantity * edited_df[i].ApparentPower])

----------------------------------------------------------------------------
(* Properties of the load series and the comparison profiles *)

\* the sum over the records of the average-power table in interval t
TotalAveragePower(t) ==
    SetSum([i \in DOMAIN average_power_df |-> average_power_df[i].e[t]],
           DOMAIN average_power_df)

\* C19: the "Total Load (W)" series and the "All Appliances" profile are the
\* per-interval column sums of the average-power table, and the peak real power
\* of calculate_peak_loads is their maximum over the intervals.
C19_PeakIsMaxTotalLoad ==
    pc = "done" =>
        /\ \A t \in time_periods :
                /\ total_load[t] = TotalAveragePower(t)
                /\ comparison.all[t] = TotalAveragePower(t)
        /\ peak_loads.real = SetMax({TotalAveragePower(t) : t \in time_periods})

\* two records with a use time below 100 % are on in the same interval, and the
\* peak is the total load of that interval
C19_Witness ==
    /\ pc = "done"
    /\ Len(edited_df) = 2
    /\ \E t \in time_periods :
            /\ \A i \in DOMAIN edited_df :
                    /\ IsOn(edited_df[i], t)
                    /\ edited_df[i].UseTime < UseTimeMax
                    /\ average_power_df[i].e[t] > 0
            /\ peak_loads.real = total_load[t]
            /\ peak_loads.real > average_power_df[1].e[t]

\* an essential record whose name matches "Geyser|Stove"
EssentialHeating(row) ==
    /\ str_lower(row.Priority) = "essential"
    /\ row.Appliance \in HeatingNames

\* C20 as stated: in every interval Essentials-Only <= Essential+Medium (No
\* Heating) <= All-Appliances.
C20_ProfilesNested ==
    pc = "done" =>
        \A t \in time_periods :
            /\ comparison.ess[t] <= comparison.ess_med[t]
            /\ comparison.ess_med[t] <= comparison.all[t]

\* C20, amended: in every interval Essential+Medium (No Heating) and
\* Essentials-Only are both <= All-Appliances, and Essentials-Only <=
\* Essential+Medium (No Heating) when no essential record is a heating
\* appliance by name.
C20_ProfilesBelowAll ==
    pc = "done" =>
        \A t \in time_periods :
            /\ 0 <= comparison.ess[t]
            /\ 0 <= comparison.ess_med[t]
            /\ comparison.ess[t] <= comparison.all[t]
            /\ comparison.ess_med[t] <= comparison.all[t]
            /\ (\A i \in DOMAIN edited_df : ~EssentialHeating(edited_df[i]))
                    => comparison.ess[t] <= comparison.ess_med[t]

\* an essential and a medium record, neither a heating appliance, are on in the
\* same interval: the three profiles differ there as the claim orders them
C20_Witness ==
    /\ pc = "done"
    /\ \A i \in DOMAIN edited_df : edited_df[i].Appliance \notin HeatingNames
    /\ \E t \in time_periods :
            /\ 0 < comparison.ess[t]
            /\ comparison.ess[t] < comparison.ess_med[t]
            /\ comparison.ess_med[t] <= comparison.all[t]

----------------------------------------------------------------------------
(* Properties of the snapshot of the session *)

HasSnapshot == "original_df" \in session_state.keys

\* the batch at the "Save Changes" button is the validated batch of the editor's
\* with the apparent power derived and the daily totals computed
EditedIsValidated ==
    /\ DOMAIN edited_df = DOMAIN editor_df
    /\ \A i \in DOMAIN edited_df :
            edited_df[i] =
                [ValidatedRecord(editor_df[i]) EXCEPT
                    !.TotalDailyEnergy = row_total(energy_df, i)]

\* C21: the snapshot is set once, by the first pass that loads a batch, from
\* that batch; after that a pass replaces it by the edited (validated, derived)
\* batch exactly when Save is requested and save_data returns success, and
\* leaves it unchanged when Save is not requested or save_data fails.
C21_SnapshotReplacedOnSave ==
    [][ /\ ~HasSnapshot =>
                /\ pc \in {"load", "stopped"}
                /\ HasSnapshot' => /\ appliances # <<>>
                                   /\ session_state'.original_df = appliances
        /\ HasSnapshot =>
                /\ HasSnapshot'
                /\ pc # "display" => session_state' = session_state
                /\ pc = "display" =>
                        IF save_result' = "saved"
                            THEN /\ session_state'.original_df = edited_df
                                 /\ EditedIsValidated
                            ELSE /\ save_result' \in {"not_requested", "failed"}
                                 /\ session_state' = session_state
      ]_vars

\* a pass has saved a batch that differs from the snapshot it was compared
\* with: the snapshot is now that batch, with its daily totals
C21_Witness ==
    /\ pc = "done"
    /\ save_result = "saved"
    /\ change_log # <<>>
    /\ session_state.original_df = edited_df
    /\ \E i \in DOMAIN edited_df : edited_df[i].TotalDailyEnergy > 0

\* a pass whose save_data failed has kept a snapshot that differs from its
\* edited batch
C21_WitnessFailed ==
    /\ pc = "done"
    /\ save_result = "failed"
    /\ HasSnapshot
    /\ session_state.original_df # edited_df

----------------------------------------------------------------------------
(* Properties of the change log *)

\* the change types logged for an id, in the order logged
LoggedFor(log, id_) ==
    LET entries == SelectSeq(log, LAMBDA e : e.appliance_id = id_)
    IN  [k \in DOMAIN entries |-> entries[k].change_type]

\* what save_data(new, old) is to log for an id
ExpectedFor(new, old, id_) ==
    IF id_ \notin index_ids(new) THEN <<"DELETE">>
    ELSE IF id_ \notin index_ids(old) THEN <<"INSERT">>
    ELSE IF loc(new, id_) # loc(old, id_) THEN <<"UPDATE">>
    ELSE <<>>

\* a row's user-entered columns
UserEntered(row) ==
    [row EXCEPT !.ApparentPower = 0, !.TotalDailyEnergy = 0]

\* the editor returned the snapshot with no user-entered value changed
NothingChanged(new, old) ==
    /\ DOMAIN new = DOMAIN old
    /\ \A i \in DOMAIN new : UserEntered(new[i]) = UserEntered(old[i])

\* the classification of the ids by a successful save_data(new, old)
ClassifiedOnce(log, new, old) ==
    /\ \A k \in DOMAIN log : log[k].appliance_id \in index_ids(new) \cup index_ids(old)
    /\ \A id_ \in index_ids(new) \cup index_ids(old) :
            LoggedFor(log, id_) = ExpectedFor(new, old, id_)

\* C22: a successful save_data(new, old) with unique ids logs one DELETE for
\* each id only in old, one INSERT for each id only in new, one UPDATE for each
\* id in both whose rows differ and nothing for an id whose rows are identical;
\* saving a batch in which the user changed nothing relative to the snapshot
\* logs nothing.
C22_ChangeLogClassification ==
    [][ pc = "display" /\ save_result' = "saved" =>
            /\ ClassifiedOnce(change_log', edited_df, session_state.original_df)
            /\ NothingChanged(editor_df, session_state.original_df)
                    => change_log' = <<>>
      ]_vars

====
